---- MODULE Spec2Model ----
(***************************************************************************)
(* A model of SpotifyTestApp: the encrypted credential store and token     *)
(* cache (src/src/file_handler.py, src/src/util.py) and the playlist genre *)
(* aggregator (src/src/playlist_info.py).                                  *)
(*                                                                         *)
(* Python values are tagged records so that values of different Python     *)
(* types can be compared: Str(s) is a str, Num(n) an int, None the None    *)
(* object, Dict(d) a dict, and Token(k, s) the str that Fernet key k       *)
(* produces when it encrypts the text s.  json.dump / json.load are        *)
(* lossless on dicts of str and int, so a JSON file holds the dict itself. *)
(***************************************************************************)
EXTENDS Integers, Sequences, FiniteSets, TLC

VARIABLES
    keyFile,        \* ../cache/keys/spotify.key: 0 when absent, else the key it holds
    keysMade,       \* how many keys Fernet.generate_key() has produced so far
    credFile,       \* ../cache/spotify_credentials.json
    tokenFile,      \* ../cache/token_cache.json
    tokenMtime,     \* os.path.getmtime of the token cache file
    now,            \* time.time()
    running,        \* the process is up: the module-level handlers were constructed
    credKey,        \* CredentialsFileHandler.fernet_key
    credentials,    \* CredentialsFileHandler.credentials
    cacheKey,       \* CustomCacheFileHandler.fernet_key
    last,           \* the most recent call of a handler method: its outcome, and the
                    \* token_info a save_token_to_cache was given
    playlist_entry, \* the text of MainCanvas.playlist_entry, a sequence of characters
    playlist_id,    \* what extract_playlist_id made of it
    remote,         \* the playlist and the artists the Spotify API serves
    pc,             \* where get_combined_genres stands
    offset,         \* get_artist_counts: offset
    artists,        \* get_artist_counts: the Counter artists
    batch_i,        \* get_genre_counts: i of the loop over range(0, len(artist_ids), batch_size)
    genres,         \* get_genre_counts: the Counter genres
    track_total,    \* what get_track_total returned
    calls,          \* the calls made to self.spotapi, in order
    screen,         \* what App shows: "none" before App.__init__, "authorisation",
                    \* "main", or "main_error" when MainCanvas.__init__ raised
    code_entry      \* the text of AuthorisationCanvas.code_entry at the last submit

cacheVars == <<keyFile, keysMade, credFile, tokenFile, tokenMtime, now, running,
               credKey, credentials, cacheKey, last>>

aggregateVars == <<remote, pc, offset, artists, batch_i, genres, track_total, calls>>

canvasVars == <<playlist_entry, playlist_id, aggregateVars>>

appVars == <<screen, code_entry>>

vars == <<cacheVars, canvasVars, appVars>>

-----------------------------------------------------------------------------
(* Bounds *)

\* Fernet.generate_key() is called at most MaxKeys times.
MaxKeys == 2

\* The clock stops at MaxTime.
MaxTime == 100

-----------------------------------------------------------------------------
(* Python values *)

None == [t |-> "None"]

Str(s) == [t |-> "str", s |-> s]

Num(n) == [t |-> "int", n |-> n]

Dict(d) == [t |-> "dict", d |-> d]

\* The text Fernet(k).encrypt(s.encode()).decode() returns.  The token's
\* timestamp and IV are left out: no method of the handlers reads them.
Token(k, s) == [t |-> "token", key |-> k, pt |-> s]

IsToken(v) == v.t = "token"

\* bool(x) of Python
Truthy(x) ==
    CASE x.t = "None" -> FALSE
      [] x.t = "str" -> x.s # ""
      [] x.t = "int" -> x.n # 0
      [] x.t = "dict" -> DOMAIN x.d # {}
      [] OTHER -> TRUE

\* x and y of Python: the first operand when it is falsy, else the second
PyAnd(x, y) == IF Truthy(x) THEN y ELSE x

Return(v) == [k |-> "return", v |-> v]

Raise(e) == [k |-> "raise", exc |-> e]

Called(op, arg, out) == [op |-> op, arg |-> arg, out |-> out]

-----------------------------------------------------------------------------
(* Files *)

Absent == [kind |-> "absent"]

Garbage == [kind |-> "garbage"]

Json(obj) == [kind |-> "json", obj |-> obj]

exists(f) == f.kind # "absent"

-----------------------------------------------------------------------------
(* util.py *)

\* A get_fernet_key that skips the os.path.exists test and always generates.
get_fernet_key_always_generates(kf, made) ==
    [key |-> made + 1, keyFile |-> made + 1, keysMade |-> made + 1]

\* get_fernet_key(): the key returned and the key file and generator after the
\* call.  A generated key differs from every key generated before.
get_fernet_key(kf, made) ==
    IF kf # 0
    THEN [key |-> kf, keyFile |-> kf, keysMade |-> made]
    ELSE [key |-> made + 1, keyFile |-> made + 1, keysMade |-> made + 1]

\* Fernet.encrypt on the text of a str
encrypt(k, v) == Token(k, v.s)

\* Fernet.decrypt: the text, or InvalidToken for a str that is no token of key k
decrypt(k, v) ==
    IF IsToken(v) /\ v.key = k
    THEN [ok |-> TRUE, v |-> Str(v.pt)]
    ELSE [ok |-> FALSE, v |-> None]

-----------------------------------------------------------------------------
(* Inputs *)

\* What the user types into the two entry fields: two complete pairs, and one
\* pair with each field left empty.
EntryInputs == {<<"idA", "secA">>, <<"idB", "secA">>, <<"", "secA">>, <<"idA", "">>}

\* The dicts submit_credentials builds from the two entry fields
CredentialInputs ==
    {[client_id |-> Str(e[1]), client_secret |-> Str(e[2])] : e \in EntryInputs}

\* Token endpoint responses: two ordinary ones, one whose access token is the
\* text "access_token", and an error response, which carries no expires_in.
TokenInputs ==
    { [access_token |-> Str("tokA"), refresh_token |-> Str("refA"),
       expires_in |-> Num(3600), token_type |-> Str("Bearer")],
      [access_token |-> Str("tokB"), refresh_token |-> Str("refB"),
       expires_in |-> Num(3600), token_type |-> Str("Bearer")],
      [access_token |-> Str("access_token"), refresh_token |-> Str("refA"),
       expires_in |-> Num(3600), token_type |-> Str("Bearer")],
      [error |-> Str("invalid_grant")] }

\* The clock advances by one of these amounts.
TickSteps == {50, 99}

-----------------------------------------------------------------------------
(* file_handler.py: CredentialsFileHandler *)

\* An has_credentials that looks at client_id alone.
has_credentials_id_only(creds) ==
    IF Truthy(creds) THEN creds.d["client_id"] ELSE None

\* property client_id: None unless self.credentials is truthy
client_id(creds) == IF Truthy(creds) THEN creds.d["client_id"] ELSE None

\* property client_secret
client_secret(creds) == IF Truthy(creds) THEN creds.d["client_secret"] ELSE None

\* property has_credentials: the value of `client_id and client_secret`
has_credentials(creds) == PyAnd(client_id(creds), client_secret(creds))

\* retrieve_credentials(): the key file, self.credentials and the outcome after
\* the call.  A missing or unparsable file gives None.  When a decrypt raises
\* InvalidToken the local `credentials` is still unbound, so the finally block
\* raises UnboundLocalError in its first statement and self.credentials keeps
\* its old value.
retrieve_credentials_result(kf, made, cf, creds) ==
    LET g == get_fernet_key(kf, made)
        dec == [k \in DOMAIN cf.obj |-> decrypt(g.key, cf.obj[k])]
    IN  IF cf.kind # "json"
        THEN [keyFile |-> g.keyFile, keysMade |-> g.keysMade,
              credentials |-> None, out |-> Return(None)]
        ELSE IF \A k \in DOMAIN cf.obj : dec[k].ok
        THEN [keyFile |-> g.keyFile, keysMade |-> g.keysMade,
              credentials |-> Dict([k \in DOMAIN cf.obj |-> dec[k].v]),
              out |-> Return(Dict([k \in DOMAIN cf.obj |-> dec[k].v]))]
        ELSE [keyFile |-> g.keyFile, keysMade |-> g.keysMade,
              credentials |-> creds, out |-> Raise("UnboundLocalError")]

\* A save_credentials_to_file that encrypts with a key read afresh.
save_credentials_result_wrong_key(key, cf, creds, arg) ==
    LET c == IF Truthy(arg) THEN arg ELSE creds
    IN  IF c.t # "dict"
        THEN [credFile |-> cf, out |-> Raise("AttributeError")]
        ELSE [credFile |-> Json([k \in DOMAIN c.d |-> encrypt(key + 1, c.d[k])]),
              out |-> Return(None)]

\* save_credentials_to_file(credentials): the credentials file and the outcome.
\* A falsy argument stands for self.credentials; None has no items().
save_credentials_result(key, cf, creds, arg) ==
    LET c == IF Truthy(arg) THEN arg ELSE creds
    IN  IF c.t # "dict"
        THEN [credFile |-> cf, out |-> Raise("AttributeError")]
        ELSE [credFile |-> Json([k \in DOMAIN c.d |-> encrypt(key, c.d[k])]),
              out |-> Return(None)]

retrieve_credentials ==
    /\ running
    /\ LET r == retrieve_credentials_result(keyFile, keysMade, credFile, credentials)
       IN  /\ keyFile' = r.keyFile
           /\ keysMade' = r.keysMade
           /\ credentials' = r.credentials
           /\ last' = Called("retrieve_credentials", None, r.out)
    /\ UNCHANGED <<credFile, tokenFile, tokenMtime, now, running, credKey, cacheKey>>
    /\ UNCHANGED <<canvasVars, appVars>>

save_credentials_to_file(arg) ==
    /\ running
    /\ LET r == save_credentials_result(credKey, credFile, credentials, arg)
       IN  /\ credFile' = r.credFile
           /\ last' = Called("save_credentials_to_file", None, r.out)
    /\ UNCHANGED <<keyFile, keysMade, tokenFile, tokenMtime, now, running,
                   credKey, credentials, cacheKey>>
    /\ UNCHANGED <<canvasVars, appVars>>

\* AuthorisationCanvas.submit_credentials: save the entered credentials, then
\* retrieve them into the handler.  The outcome kept is that of the retrieve.
submit_credentials(id, secret) ==
    /\ running
    /\ LET arg == Dict([client_id |-> Str(id), client_secret |-> Str(secret)])
           s == save_credentials_result(credKey, credFile, credentials, arg)
           r == retrieve_credentials_result(keyFile, keysMade, s.credFile, credentials)
       IN  /\ credFile' = s.credFile
           /\ keyFile' = r.keyFile
           /\ keysMade' = r.keysMade
           /\ credentials' = r.credentials
           /\ last' = Called("submit_credentials", None, r.out)
    /\ UNCHANGED <<tokenFile, tokenMtime, now, running, credKey, cacheKey>>
    /\ UNCHANGED <<canvasVars, appVars>>

-----------------------------------------------------------------------------
(* file_handler.py: CustomCacheFileHandler *)

ATTRS_TO_ENCRYPT == {"access_token", "refresh_token"}

REFRESH_INTERVAL == 100

\* `v in self.ATTRS_TO_ENCRYPT` of both comprehensions: the test is made on the
\* VALUE v of the item, which is in the tuple only when it is one of the two
\* attribute names itself.
in_ATTRS_TO_ENCRYPT(k, v) == v.t = "str" /\ v.s \in ATTRS_TO_ENCRYPT

\* An is_cache_fresh with the comparison turned around.
is_cache_fresh_inverted(tf, mtime, t) ==
    IF exists(tf) THEN (t - mtime) > REFRESH_INTERVAL ELSE FALSE

\* is_cache_fresh()
is_cache_fresh(tf, mtime, t) ==
    IF exists(tf) THEN (t - mtime) < REFRESH_INTERVAL ELSE FALSE

\* encrypted_token_info['expires_at'] = encrypted_token_info.pop('expires_in')
rename_expires(d) ==
    [k \in (DOMAIN d \ {"expires_in"}) \cup {"expires_at"} |->
        IF k = "expires_at" THEN d["expires_in"] ELSE d[k]]

\* A save that writes the record as it is when it has no expires_in.
save_token_result_without_pop(key, tf, mtime, t, token_info) ==
    LET enc == [k \in DOMAIN token_info |->
                  IF in_ATTRS_TO_ENCRYPT(k, token_info[k])
                  THEN encrypt(key, token_info[k])
                  ELSE token_info[k]]
    IN  IF is_cache_fresh(tf, mtime, t)
        THEN [tokenFile |-> tf, tokenMtime |-> mtime, out |-> Return(None)]
        ELSE [tokenFile |-> Json(IF "expires_in" \in DOMAIN enc THEN rename_expires(enc) ELSE enc),
              tokenMtime |-> t, out |-> Return(None)]

\* save_token_to_cache(token_info): the cache file, its modification time and
\* the outcome.  pop raises KeyError before the file is opened.
save_token_result(key, tf, mtime, t, token_info) ==
    LET enc == [k \in DOMAIN token_info |->
                  IF in_ATTRS_TO_ENCRYPT(k, token_info[k])
                  THEN encrypt(key, token_info[k])
                  ELSE token_info[k]]
    IN  IF is_cache_fresh(tf, mtime, t)
        THEN [tokenFile |-> tf, tokenMtime |-> mtime, out |-> Return(None)]
        ELSE IF "expires_in" \notin DOMAIN enc
        THEN [tokenFile |-> tf, tokenMtime |-> mtime, out |-> Raise("KeyError")]
        ELSE [tokenFile |-> Json(rename_expires(enc)), tokenMtime |-> t,
              out |-> Return(None)]

\* get_cached_token(): None without a file, else the dict read, the items whose
\* value passes the test decrypted; decrypt raises InvalidToken.
get_cached_token_result(key, tf) ==
    LET dec == [k \in DOMAIN tf.obj |->
                  IF in_ATTRS_TO_ENCRYPT(k, tf.obj[k])
                  THEN decrypt(key, tf.obj[k])
                  ELSE [ok |-> TRUE, v |-> tf.obj[k]]]
    IN  IF ~exists(tf)
        THEN Return(None)
        ELSE IF \A k \in DOMAIN tf.obj : dec[k].ok
        THEN Return(Dict([k \in DOMAIN tf.obj |-> dec[k].v]))
        ELSE Raise("InvalidToken")

save_token_to_cache(token_info) ==
    /\ running
    /\ LET r == save_token_result(cacheKey, tokenFile, tokenMtime, now, token_info)
       IN  /\ tokenFile' = r.tokenFile
           /\ tokenMtime' = r.tokenMtime
           /\ last' = Called("save_token_to_cache", Dict(token_info), r.out)
    /\ UNCHANGED <<keyFile, keysMade, credFile, now, running, credKey, credentials, cacheKey>>
    /\ UNCHANGED <<canvasVars, appVars>>

get_cached_token ==
    /\ running
    /\ last' = Called("get_cached_token", None, get_cached_token_result(cacheKey, tokenFile))
    /\ UNCHANGED <<keyFile, keysMade, credFile, tokenFile, tokenMtime, now, running,
                   credKey, credentials, cacheKey>>
    /\ UNCHANGED <<canvasVars, appVars>>

-----------------------------------------------------------------------------
(* The process and its environment *)

\* Module import: CREDENTIALS_FILE_HANDLER = CredentialsFileHandler(), then
\* CACHE_FILE_HANDLER = CustomCacheFileHandler().  When retrieve_credentials
\* raises inside __init__ the import fails and the process does not come up.
\* A process that comes up has no window yet.
Restart ==
    LET g == get_fernet_key(keyFile, keysMade)
        r == retrieve_credentials_result(g.keyFile, g.keysMade, credFile, None)
        h == get_fernet_key(r.keyFile, r.keysMade)
    IN  /\ keyFile' = h.keyFile
        /\ keysMade' = h.keysMade
        /\ IF r.out.k = "raise"
           THEN /\ running' = FALSE
                /\ credKey' = 0
                /\ credentials' = None
                /\ cacheKey' = 0
           ELSE /\ running' = TRUE
                /\ credKey' = g.key
                /\ credentials' = r.credentials
                /\ cacheKey' = h.key
        /\ last' = Called("__init__", None, IF r.out.k = "raise" THEN r.out ELSE Return(None))
        /\ screen' = "none"
        /\ code_entry' = ""
        /\ UNCHANGED <<credFile, tokenFile, tokenMtime, now>>
        /\ UNCHANGED canvasVars

\* time.time() moves on
Tick(d) ==
    /\ now + d <= MaxTime
    /\ now' = now + d
    /\ UNCHANGED <<keyFile, keysMade, credFile, tokenFile, tokenMtime, running,
                   credKey, credentials, cacheKey, last>>
    /\ UNCHANGED <<canvasVars, appVars>>

\* The key file is removed from outside (a next get_fernet_key regenerates it).
DeleteKeyFile ==
    /\ keyFile # 0
    /\ keysMade < MaxKeys
    /\ keyFile' = 0
    /\ UNCHANGED <<keysMade, credFile, tokenFile, tokenMtime, now, running,
                   credKey, credentials, cacheKey, last>>
    /\ UNCHANGED <<canvasVars, appVars>>

DeleteCredentialsFile ==
    /\ exists(credFile)
    /\ credFile' = Absent
    /\ UNCHANGED <<keyFile, keysMade, tokenFile, tokenMtime, now, running,
                   credKey, credentials, cacheKey, last>>
    /\ UNCHANGED <<canvasVars, appVars>>

\* The credentials file is left holding text that is not JSON.
CorruptCredentialsFile ==
    /\ credFile # Garbage
    /\ credFile' = Garbage
    /\ UNCHANGED <<keyFile, keysMade, tokenFile, tokenMtime, now, running,
                   credKey, credentials, cacheKey, last>>
    /\ UNCHANGED <<canvasVars, appVars>>

DeleteTokenCacheFile ==
    /\ exists(tokenFile)
    /\ tokenFile' = Absent
    /\ tokenMtime' = 0
    /\ UNCHANGED <<keyFile, keysMade, credFile, now, running,
                   credKey, credentials, cacheKey, last>>
    /\ UNCHANGED <<canvasVars, appVars>>

\* The state after a first start in an empty cache directory: the first
\* get_fernet_key wrote key 1, no credentials and no token were found.
CacheInit ==
    /\ keyFile = 1
    /\ keysMade = 1
    /\ credFile = Absent
    /\ tokenFile = Absent
    /\ tokenMtime = 0
    /\ now = 0
    /\ running = TRUE
    /\ credKey = 1
    /\ credentials = None
    /\ cacheKey = 1
    /\ last = Called("__init__", None, Return(None))

\* The main canvas before anything was typed or asked for
CanvasIdle ==
    /\ playlist_entry = <<>>
    /\ playlist_id = None
    /\ remote = [total |-> 0, nArtists |-> 1, feat |-> 0, shift |-> 0]
    /\ pc = "idle"
    /\ offset = 0
    /\ artists = [keys |-> <<>>, cnt |-> <<>>]
    /\ batch_i = 0
    /\ genres = [keys |-> <<>>, cnt |-> <<>>]
    /\ track_total = 0
    /\ calls = <<>>

-----------------------------------------------------------------------------
(* main.py and authorisation.py: which canvas the application shows *)

\* The text typed as authorisation code
CodeInputs == {"", "codeA"}

\* requests.post(...) then response.json(): the token endpoint's answer, or a
\* failure of the transport
Responses == {Return(Dict(t)) : t \in TokenInputs} \cup {Raise("ConnectionError")}

\* App.run_main: MainCanvas.__init__ calls create_API_object, which calls
\* create_auth_manager.  That raises without credentials; with them it
\* constructs the CustomCacheFileHandler the auth manager is to use, whose
\* __init__ calls get_fernet_key.
run_main_result(kf, made, key, creds) ==
    IF ~Truthy(has_credentials(creds))
    THEN [screen |-> "main_error", keyFile |-> kf, keysMade |-> made, key |-> key]
    ELSE LET g == get_fernet_key(kf, made)
         IN  [screen |-> "main", keyFile |-> g.keyFile, keysMade |-> g.keysMade, key |-> g.key]

\* App.__init__: the authorisation canvas when get_cached_token gives nothing,
\* else the main canvas.  An exception leaves __init__ and ends the process.
App__init__ ==
    /\ running
    /\ screen = "none"
    /\ LET out == get_cached_token_result(cacheKey, tokenFile)
           m == run_main_result(keyFile, keysMade, cacheKey, credentials)
       IN  /\ last' = Called("get_cached_token", None, out)
           /\ IF out.k = "raise"
              THEN /\ running' = FALSE
                   /\ UNCHANGED <<screen, keyFile, keysMade, cacheKey>>
              ELSE IF ~Truthy(out.v)
              THEN /\ screen' = "authorisation"
                   /\ UNCHANGED <<running, keyFile, keysMade, cacheKey>>
              ELSE /\ screen' = m.screen
                   /\ running' = (m.screen = "main")
                   /\ keyFile' = m.keyFile
                   /\ keysMade' = m.keysMade
                   /\ cacheKey' = m.key
    /\ UNCHANGED <<credFile, tokenFile, tokenMtime, now, credKey, credentials, code_entry>>
    /\ UNCHANGED canvasVars

\* The button of the credentials form, on the authorisation canvas
submit_credentials_button(id, secret) ==
    /\ screen = "authorisation"
    /\ submit_credentials(id, secret)

\* submit_authorisation_code with auth_code typed and response what the token
\* endpoint answers: generate_tokens hands the answer to save_token_to_cache,
\* then on_success hides the authorisation canvas and calls run_main.  An
\* exception ends the callback where it is raised.
submit_authorisation_code(auth_code, response) ==
    /\ running
    /\ screen = "authorisation"
    /\ code_entry' = auth_code
    /\ IF ~Truthy(PyAnd(Str(auth_code), has_credentials(credentials)))
       THEN UNCHANGED <<keyFile, keysMade, tokenFile, tokenMtime, cacheKey, last, screen>>
       ELSE IF response.k = "raise"
       THEN UNCHANGED <<keyFile, keysMade, tokenFile, tokenMtime, cacheKey, last, screen>>
       ELSE LET r == save_token_result(cacheKey, tokenFile, tokenMtime, now, response.v.d)
                m == run_main_result(keyFile, keysMade, cacheKey, credentials)
            IN  /\ tokenFile' = r.tokenFile
                /\ tokenMtime' = r.tokenMtime
                /\ last' = Called("save_token_to_cache", response.v, r.out)
                /\ IF r.out.k = "raise"
                   THEN UNCHANGED <<keyFile, keysMade, cacheKey, screen>>
                   ELSE /\ screen' = m.screen
                        /\ keyFile' = m.keyFile
                        /\ keysMade' = m.keysMade
                        /\ cacheKey' = m.key
    /\ UNCHANGED <<credFile, now, running, credKey, credentials>>
    /\ UNCHANGED canvasVars

\* The auth manager of the main canvas reads the cache through its handler
auth_manager_get ==
    /\ screen = "main"
    /\ get_cached_token

\* and writes to it the tokens it is given on a refresh
auth_manager_save(token_info) ==
    /\ screen = "main"
    /\ save_token_to_cache(token_info)

\* App.__init__ has not run
AppIdle ==
    /\ screen = "none"
    /\ code_entry = ""

Init == CacheInit /\ CanvasIdle /\ AppIdle

Next ==
    \/ retrieve_credentials
    \/ \E arg \in {Dict(c) : c \in CredentialInputs} \cup {None} : save_credentials_to_file(arg)
    \/ \E e \in EntryInputs : submit_credentials(e[1], e[2])
    \/ \E token_info \in TokenInputs : save_token_to_cache(token_info)
    \/ get_cached_token
    \/ Restart
    \/ \E d \in TickSteps : Tick(d)
    \/ DeleteKeyFile
    \/ DeleteCredentialsFile
    \/ CorruptCredentialsFile
    \/ DeleteTokenCacheFile

Spec == Init /\ [][Next]_vars

\* A run of the application: the process starts, App.__init__ picks a canvas,
\* the forms of the authorisation canvas are submitted; the clock moves on and
\* files are removed from outside as above.
NextApp ==
    \/ App__init__
    \/ \E e \in EntryInputs : submit_credentials_button(e[1], e[2])
    \/ \E c \in CodeInputs, response \in Responses : submit_authorisation_code(c, response)
    \/ auth_manager_get
    \/ \E token_info \in TokenInputs : auth_manager_save(token_info)
    \/ Restart
    \/ \E d \in TickSteps : Tick(d)
    \/ DeleteKeyFile
    \/ DeleteCredentialsFile
    \/ CorruptCredentialsFile
    \/ DeleteTokenCacheFile

SpecApp == Init /\ [][NextApp]_vars

-----------------------------------------------------------------------------
(* Claims about the credential store and the token cache, under Spec *)

\* Every value a file holds that is a Fernet token
TokensIn(f) == IF f.kind = "json" THEN {f.obj[k] : k \in {j \in DOMAIN f.obj : IsToken(f.obj[j])}} ELSE {}

\* The cache file is there and younger than the refresh interval
WithinInterval == exists(tokenFile) /\ now - tokenMtime < REFRESH_INTERVAL

\* The token records of the data model: they carry expires_in
TokenRecords == {t \in TokenInputs : {"access_token", "refresh_token", "expires_in"} \subseteq DOMAIN t}

\* C1: whatever save_token_to_cache calls were made, a token cache file on disk
\* holds the values of access_token and refresh_token as Fernet tokens (of the
\* only key, while no second one was generated) and every other field in clear.
C1_SensitiveFieldsEncrypted ==
    exists(tokenFile) =>
        \A k \in DOMAIN tokenFile.obj :
            IF k \in ATTRS_TO_ENCRYPT
            THEN /\ IsToken(tokenFile.obj[k])
                 /\ keysMade = 1 => tokenFile.obj[k].key = 1
            ELSE ~IsToken(tokenFile.obj[k])

\* The record d carries the two secrets of token t (in clear or as tokens of them)
CarriesSecretsOf(d, t) ==
    \A k \in ATTRS_TO_ENCRYPT :
        /\ k \in DOMAIN d
        /\ \/ d[k] = t[k]
           \/ IsToken(d[k]) /\ d[k].pt = t[k].s

\* C2: a save_token_to_cache made less than REFRESH_INTERVAL after the file's
\* modification time writes nothing: content and modification time stay those
\* of the earlier call, and get_cached_token then returns what it returned
\* before the call, the earlier token's secrets and not the later one's.
C2_FreshnessGate ==
    [][\A t2 \in TokenInputs :
          (save_token_to_cache(t2) /\ WithinInterval) =>
              /\ tokenFile' = tokenFile
              /\ tokenMtime' = tokenMtime
              /\ last'.out = Return(None)
              /\ get_cached_token_result(cacheKey', tokenFile') =
                     get_cached_token_result(cacheKey, tokenFile)
              /\ \A t1 \in TokenRecords :
                     CarriesSecretsOf(tokenFile.obj, t1) =>
                        LET g == get_cached_token_result(cacheKey', tokenFile')
                        IN  /\ g.k = "return"
                            /\ g.v.t = "dict"
                            /\ CarriesSecretsOf(g.v.d, t1)
      ]_vars

\* C2's case: the last call was a save of token B made inside the interval,
\* after time has passed, and the file still holds token A.
C2_Witness ==
    /\ last.op = "save_token_to_cache"
    /\ last.out = Return(None)
    /\ "access_token" \in DOMAIN last.arg.d
    /\ last.arg.d["access_token"] = Str("tokB")
    /\ WithinInterval
    /\ tokenMtime < now
    /\ tokenFile.obj["access_token"] = Str("tokA")

\* C3: for every token record, a save_token_to_cache on a stale or missing cache
\* file followed by get_cached_token gives back the record: access_token and
\* refresh_token equal the originals and the other fields are unchanged (the
\* lifetime is carried under the name expires_at).
C3_TokenRoundTrip ==
    [][\A t \in TokenRecords :
          (save_token_to_cache(t) /\ ~WithinInterval) =>
              get_cached_token_result(cacheKey', tokenFile') = Return(Dict(rename_expires(t)))
      ]_vars

\* C4: with the key file the one the handler was built with, submit_credentials
\* of a record with non-empty fields returns that record from
\* retrieve_credentials and leaves it in the handler, whatever was there before.
C4_CredentialsRoundTrip ==
    [][\A e \in EntryInputs :
          (submit_credentials(e[1], e[2]) /\ keyFile = credKey /\ e[1] # "" /\ e[2] # "") =>
              LET rec == Dict([client_id |-> Str(e[1]), client_secret |-> Str(e[2])])
              IN  /\ last'.out = Return(rec)
                  /\ credentials' = rec
                  /\ client_id(credentials') = Str(e[1])
                  /\ client_secret(credentials') = Str(e[2])
      ]_vars

\* C4's case: a submit that replaced what the file held returned the record idB/secA.
C4_Witness ==
    /\ last.op = "submit_credentials"
    /\ last.out = Return(Dict([client_id |-> Str("idB"), client_secret |-> Str("secA")]))
    /\ credentials = last.out.v
    /\ keyFile = credKey

\* C5: an existing key file is never rewritten (it only changes by being removed
\* from outside), a key is generated only when the key file is absent, and as
\* long as no second key was generated every token on disk is one of the first
\* key, the handlers hold that key, and no call fails to decrypt.
C5_KeyIdempotent ==
    /\ [][(keyFile # 0 /\ ~DeleteKeyFile) => keyFile' = keyFile]_vars
    /\ [][keysMade' # keysMade => (keyFile = 0 /\ keysMade' = keysMade + 1 /\ keyFile' = keysMade')]_vars
    /\ [](keysMade = 1 =>
            /\ \A c \in TokensIn(credFile) \cup TokensIn(tokenFile) : c.key = 1
            /\ running => (credKey = 1 /\ cacheKey = 1)
            /\ last.out.k = "raise" => last.out.exc \in {"AttributeError", "KeyError"})

\* C5's case: with the first key still the only one, credentials were read back
\* from a file after the token cache had been written too.
C5_Witness ==
    /\ keysMade = 1
    /\ keyFile = 1
    /\ last.op = "retrieve_credentials"
    /\ last.out.k = "return"
    /\ last.out.v.t = "dict"
    /\ exists(tokenFile)

\* The key file holds a key generated after the one that made some token in f
StaleUnder(f, kf) == kf # 0 /\ \E c \in TokensIn(f) : c.key # kf

\* C6: once the key file holds a regenerated key, reading a file that holds
\* tokens of the old key ends in an error at the caller: retrieve_credentials
\* and get_cached_token return neither None nor the stored values.
C6_StaleContentRaises ==
    /\ [][(retrieve_credentials /\ StaleUnder(credFile, keyFile)) => last'.out.k = "raise"]_vars
    /\ [][(get_cached_token /\ StaleUnder(tokenFile, keyFile)) => last'.out.k = "raise"]_vars

\* Both fields of self.credentials are there and non-empty
BothNonEmpty(creds) ==
    /\ creds.t = "dict"
    /\ creds.d["client_id"].s # ""
    /\ creds.d["client_secret"].s # ""

\* C7: has_credentials is true exactly when self.credentials is a record with
\* both fields non-empty; a retrieve_credentials that finds no file or
\* unparsable content stores None, after which it is false; and
\* save_credentials_to_file alone does not change it.
C7_HasCredentials ==
    /\ [](running => (Truthy(has_credentials(credentials)) <=> BothNonEmpty(credentials)))
    /\ [][(retrieve_credentials /\ credFile.kind # "json") =>
             /\ last'.out = Return(None)
             /\ credentials' = None
             /\ ~Truthy(has_credentials(credentials'))]_vars
    /\ [][\A arg \in {Dict(c) : c \in CredentialInputs} \cup {None} :
             save_credentials_to_file(arg) =>
                 has_credentials(credentials') = has_credentials(credentials)]_vars

\* C7's case: retrieve_credentials found unparsable content and stored None.
C7_Witness ==
    /\ running
    /\ last.op = "retrieve_credentials"
    /\ last.out = Return(None)
    /\ credFile = Garbage
    /\ credentials = None
    /\ ~Truthy(has_credentials(credentials))

-----------------------------------------------------------------------------
(* playlist_info.py: MainCanvas.extract_playlist_id *)
(* A str is a sequence of its characters. *)

Digits == {"0", "1", "2", "3", "4", "5", "6", "7", "8", "9"}

Upper ==
    {"A", "B", "C", "D", "E", "F", "G", "H", "I", "J", "K", "L", "M", "N", "O", "P", "Q", "R", "S", "T", "U", "V", "W", "X", "Y", "Z"}

Lower ==
    {"a", "b", "c", "d", "e", "f", "g", "h", "i", "j", "k", "l", "m", "n", "o", "p", "q", "r", "s", "t", "u", "v", "w", "x", "y", "z"}

\* [A-Za-z0-9]
Alnum == Digits \cup Upper \cup Lower

\* \w of a str pattern: the alphanumerics, the underscore and the letters and
\* digits of the rest of Unicode, which "U+00E9" (an accented e) stands for
Word == Alnum \cup {"_", "U+00E9"}

\* The literal text of playlist_url_pattern before its group
UrlPrefix ==
    <<"h", "t", "t", "p", "s", ":", "/", "/", "o", "p", "e", "n", ".", "s", "p", "o", "t", "i", "f", "y", ".", "c", "o", "m", "/", "p", "l", "a", "y", "l", "i", "s", "t", "/">>

\* The literal text of the optional group of id_pattern
SpotifyPrefix ==
    <<"s", "p", "o", "t", "i", "f", "y", ":", "p", "l", "a", "y", "l", "i", "s", "t", ":">>

HasPrefix(s, p) == Len(s) >= Len(p) /\ SubSeq(s, 1, Len(p)) = p

\* The last position of the longest run of characters of class C that starts at
\* position i of s (i - 1 when there is none): what a greedy C* consumes
RECURSIVE RunEnd(_, _, _)
RunEnd(s, i, C) ==
    IF i <= Len(s) /\ s[i] \in C THEN RunEnd(s, i + 1, C) ELSE i - 1

\* $ without re.MULTILINE: at the end of s, or just before a final newline
AtDollar(s, j) == j = Len(s) \/ (j = Len(s) - 1 /\ s[Len(s)] = "\n")

\* [A-Za-z0-9]+$ from position i.  The run is followed by a character outside
\* the class or by the end, so no shorter run can reach $ either.
IdBodyFrom(s, i) ==
    LET j == RunEnd(s, i, Alnum) IN j >= i /\ AtDollar(s, j)

\* re.match(id_pattern, input_str): with the optional group, or without it
id_pattern_match(s) ==
    \/ HasPrefix(s, SpotifyPrefix) /\ IdBodyFrom(s, Len(SpotifyPrefix) + 1)
    \/ IdBodyFrom(s, 1)

\* re.match(playlist_url_pattern, input_str): whether it matches, and group(1)
url_pattern_match(s) ==
    LET from == Len(UrlPrefix) + 1
        j == RunEnd(s, from, Word)
    IN  IF HasPrefix(s, UrlPrefix) /\ j >= from
        THEN [matched |-> TRUE, group1 |-> SubSeq(s, from, j)]
        ELSE [matched |-> FALSE, group1 |-> <<>>]

\* ValueError(f"Invalid playlist URL or playlist ID: {input_str}")
InvalidPlaylist(s) == [k |-> "raise", exc |-> "ValueError", names |-> s]

\* An extract_playlist_id that tries the URL pattern first and returns the match.
extract_playlist_id_result_whole_match(input_str) ==
    LET u == url_pattern_match(input_str)
    IN  IF u.matched THEN Return(UrlPrefix \o u.group1)
        ELSE IF id_pattern_match(input_str) THEN Return(input_str)
        ELSE InvalidPlaylist(input_str)

\* extract_playlist_id(input_str)
extract_playlist_id_result(input_str) ==
    LET u == url_pattern_match(input_str)
    IN  IF id_pattern_match(input_str) THEN Return(input_str)
        ELSE IF u.matched THEN Return(u.group1)
        ELSE InvalidPlaylist(input_str)

\* retrieve_playlist_data reads the entry and extracts the playlist id
extract_playlist_id ==
    /\ playlist_id = None
    /\ playlist_id' = extract_playlist_id_result(playlist_entry)
    /\ UNCHANGED <<cacheVars, appVars, playlist_entry, aggregateVars>>

\* Typed texts are a start followed by at most MaxTail characters.
MaxTail == 3

TailChars == {"a", "Z", "7", "_", "U+00E9", "/", "?", ":", " ", "\n"}

Tails == UNION {[1..n -> TailChars] : n \in 0..MaxTail}

\* The URL start with its dots replaced, and with a character before it
UrlPrefixNoDots == [i \in 1..Len(UrlPrefix) |-> IF UrlPrefix[i] = "." THEN "x" ELSE UrlPrefix[i]]

Starts == {<<>>, SpotifyPrefix, UrlPrefix, UrlPrefixNoDots, <<" ">> \o UrlPrefix,
           SubSeq(UrlPrefix, 1, 5), SpotifyPrefix \o UrlPrefix}

\* The playlist id of the documentation's examples
ExampleId ==
    <<"3", "7", "i", "9", "d", "Q", "Z", "F", "1", "D", "X", "c", "B", "W", "I", "G", "o", "Y", "B", "M", "5", "M">>

EntryTexts ==
    {st \o t : st \in Starts, t \in Tails}
        \cup {ExampleId, UrlPrefix \o ExampleId, SpotifyPrefix \o ExampleId,
              <<"n", "o", "t", " ", "a", " ", "u", "r", "l">>}

InitExtract ==
    /\ CacheInit
    /\ AppIdle
    /\ playlist_entry \in EntryTexts
    /\ playlist_id = None
    /\ remote = [total |-> 0, nArtists |-> 1, feat |-> 0, shift |-> 0]
    /\ pc = "idle"
    /\ offset = 0
    /\ artists = [keys |-> <<>>, cnt |-> <<>>]
    /\ batch_i = 0
    /\ genres = [keys |-> <<>>, cnt |-> <<>>]
    /\ track_total = 0
    /\ calls = <<>>

NextExtract == extract_playlist_id

SpecExtract == InitExtract /\ [][NextExtract]_vars

\* s is a non-empty text of ASCII letters and digits
IsAlphanumeric(s) == Len(s) > 0 /\ \A i \in 1..Len(s) : s[i] \in Alnum

\* The bare-ID pattern matches s: s, less a final newline, is an alphanumeric
\* text, with or without "spotify:playlist:" before it
IsBareId(s) ==
    \E pre \in {<<>>, SpotifyPrefix}, nl \in {<<>>, <<"\n">>}, n \in 0..Len(s) :
        /\ Len(pre) + n + Len(nl) = Len(s)
        /\ s = pre \o SubSeq(s, Len(pre) + 1, Len(pre) + n) \o nl
        /\ IsAlphanumeric(SubSeq(s, Len(pre) + 1, Len(pre) + n))

\* s starts with the URL pattern and id is what its group captures: the longest
\* non-empty text of word characters after the URL start
IsUrlWithId(s, id) ==
    /\ Len(id) > 0
    /\ HasPrefix(s, UrlPrefix \o id)
    /\ \A i \in 1..Len(id) : id[i] \in Word
    /\ Len(s) > Len(UrlPrefix) + Len(id) => s[Len(UrlPrefix) + Len(id) + 1] \notin Word

\* C8: extract_playlist_id returns the input unchanged when the bare-ID pattern
\* matches; else, when the input starts with the URL pattern, exactly the
\* captured id; else it raises the error naming the input.  No URL input is
\* returned unchanged.
C8_ExtractPlaylistId ==
    playlist_id # None =>
        LET s == playlist_entry
            ids == {SubSeq(s, Len(UrlPrefix) + 1, j) : j \in Len(UrlPrefix) + 1..Len(s)}
        IN  /\ IsBareId(s) => playlist_id = Return(s)
            /\ ~IsBareId(s) =>
                  /\ \A id \in ids : IsUrlWithId(s, id) => playlist_id = Return(id)
                  /\ (~\E id \in ids : IsUrlWithId(s, id)) => playlist_id = InvalidPlaylist(s)
            /\ HasPrefix(s, UrlPrefix) => playlist_id # Return(s)
            /\ playlist_id.k \in {"return", "raise"}

\* C8's case: a URL with a query after the id gave the id alone.
C8_Witness ==
    /\ playlist_entry = UrlPrefix \o <<"a", "7", "?">>
    /\ playlist_id = Return(<<"a", "7">>)

-----------------------------------------------------------------------------
(* playlist_info.py: the genre aggregator of MainCanvas *)

\* limit of get_artist_counts, and the default limit of spotipy's playlist_tracks
limit == 100

batch_size == 50

\* collections.Counter: the keys in insertion order and the count of each
EmptyCounter == [keys |-> <<>>, cnt |-> <<>>]

\* c[k]
CounterGet(c, k) == IF k \in DOMAIN c.cnt THEN c.cnt[k] ELSE 0

\* c[k] += n
CounterAdd(c, k, n) ==
    IF k \in DOMAIN c.cnt
    THEN [c EXCEPT !.cnt[k] = @ + n]
    ELSE [keys |-> Append(c.keys, k), cnt |-> c.cnt @@ (k :> n)]

Min(a, b) == IF a <= b THEN a ELSE b

(* The remote side.  A playlist of remote.total tracks over remote.nArtists *)
(* artists, numbered from 0: track i is by artist i % nArtists and, when    *)
(* remote.feat = 1 and i is even, also features artist 0.  The genre tags   *)
(* of artist x depend on x + remote.shift: pop when even, rock when a       *)
(* multiple of 3, jazz when a multiple of 4, so some artists have no tag.   *)

track_artists(r, i) ==
    LET main == i % r.nArtists
    IN  IF r.feat = 1 /\ i % 2 = 0 /\ main # 0
        THEN <<[id |-> main], [id |-> 0]>>
        ELSE <<[id |-> main]>>

artist_genres(r, x) ==
    (IF (x + r.shift) % 2 = 0 THEN <<"pop">> ELSE <<>>)
        \o (IF (x + r.shift) % 3 = 0 THEN <<"rock">> ELSE <<>>)
        \o (IF (x + r.shift) % 4 = 0 THEN <<"jazz">> ELSE <<>>)

\* The 'next' of the page at offset off.  The API sets it to the URL of the
\* following page while tracks remain after this one, and to None on the last
\* page.  The client has only the API's word for it: a remote with a field
\* more answers its n-th page with more[n], whatever tracks it holds.
next_of(r, off, lim) ==
    IF "more" \in DOMAIN r THEN r.more[off \div lim + 1]
    ELSE IF off + lim < r.total THEN Str("next") ELSE None

\* self.spotapi.playlist_tracks(playlist_id, offset=off, limit=lim): a page of
\* the listing, its 'next', and the total
playlist_tracks(r, off, lim) ==
    [items |-> [j \in 1..Min(lim, IF r.total > off THEN r.total - off ELSE 0) |->
                   [track |-> [artists |-> track_artists(r, off + j - 1)]]],
     next |-> next_of(r, off, lim),
     total |-> r.total]

\* self.spotapi.artists(batch): the detail object of each identifier asked for
spotapi_artists(r, batch) ==
    [artists |-> [j \in 1..Len(batch) |-> [id |-> batch[j], genres |-> artist_genres(r, batch[j])]]]

\* for artist in track['track']['artists']: artists[artist['id']] += 1, from the n-th artist on
RECURSIVE CountTrack(_, _, _)
CountTrack(c, as, n) ==
    IF n > Len(as) THEN c ELSE CountTrack(CounterAdd(c, as[n].id, 1), as, n + 1)

\* for track in results['items']: ..., over the items lo..hi in order.  The
\* range is walked in two halves, first the lower; the comparison has the
\* Counter of the lower half evaluated before the upper half is walked, which
\* keeps the evaluation shallow.
RECURSIVE CountItems(_, _, _, _)
CountItems(c, items, lo, hi) ==
    IF lo > hi THEN c
    ELSE IF lo = hi THEN CountTrack(c, items[lo].track.artists, 1)
    ELSE LET lower == CountItems(c, items, lo, (lo + hi) \div 2)
         IN  IF lower.keys = lower.keys
             THEN CountItems(lower, items, (lo + hi) \div 2 + 1, hi)
             ELSE lower

\* for genre in artist_genres: genres[genre] += artists[artist['id']], from the n-th genre on
RECURSIVE FoldGenres(_, _, _, _)
FoldGenres(g, gs, w, n) ==
    IF n > Len(gs) THEN g ELSE FoldGenres(CounterAdd(g, gs[n], w), gs, w, n + 1)

\* for artist in artists_data: ..., over the artists lo..hi in order (in two
\* halves, as above)
RECURSIVE FoldArtists(_, _, _, _, _)
FoldArtists(g, data, cnts, lo, hi) ==
    IF lo > hi THEN g
    ELSE IF lo = hi THEN FoldGenres(g, data[lo].genres, CounterGet(cnts, data[lo].id), 1)
    ELSE LET lower == FoldArtists(g, data, cnts, lo, (lo + hi) \div 2)
         IN  IF lower.keys = lower.keys
             THEN FoldArtists(lower, data, cnts, (lo + hi) \div 2 + 1, hi)
             ELSE lower

\* A batch cut one identifier short.
batch_of_short(artist_ids, i) ==
    SubSeq(artist_ids, i + 1, Min(i + batch_size - 1, Len(artist_ids)))

\* artist_ids[i:i + batch_size]
batch_of(artist_ids, i) ==
    SubSeq(artist_ids, i + 1, Min(i + batch_size, Len(artist_ids)))

\* An offset advanced by the batch size instead of the page size.
next_offset_by_batch(off) == off + batch_size

\* offset += limit
next_offset(off) == off + limit

PlaylistTracksCall(off, lim) == [api |-> "playlist_tracks", offset |-> off, limit |-> lim]

ArtistsCall(batch) == [api |-> "artists", ids |-> batch]

\* retrieve_playlist_data calls get_combined_genres, which enters get_artist_counts
get_combined_genres ==
    /\ pc = "idle"
    /\ pc' = "get_artist_counts"
    /\ artists' = EmptyCounter
    /\ offset' = 0
    /\ calls' = <<>>
    /\ UNCHANGED <<cacheVars, appVars, playlist_entry, playlist_id, remote, batch_i, genres, track_total>>

\* A loop that ends at the first page holding fewer than limit tracks.
loop_ends_on_short_page(results) == Len(results.items) < limit

\* if not results['next']: break
loop_ends(results) == ~Truthy(results.next)

\* The loop of get_artist_counts is followed for up to MaxCalls pages
MaxCalls == 4

\* One turn of the while loop of get_artist_counts; after the last page
\* get_genre_counts starts.  The loop itself has no bound on its turns: the
\* first conjunct only ends what is followed of a run.
get_artist_counts ==
    /\ pc = "get_artist_counts"
    /\ Len(calls) < MaxCalls
    /\ LET results == playlist_tracks(remote, offset, limit)
       IN  /\ calls' = Append(calls, PlaylistTracksCall(offset, limit))
           /\ artists' = CountItems(artists, results.items, 1, Len(results.items))
           /\ IF loop_ends(results)
              THEN /\ pc' = "get_genre_counts"
                   /\ genres' = EmptyCounter
                   /\ batch_i' = 0
                   /\ UNCHANGED offset
              ELSE /\ offset' = next_offset(offset)
                   /\ UNCHANGED <<pc, genres, batch_i>>
    /\ UNCHANGED <<cacheVars, appVars, playlist_entry, playlist_id, remote, track_total>>

\* One turn of the for loop of get_genre_counts, or its end
get_genre_counts ==
    /\ pc = "get_genre_counts"
    /\ \/ /\ batch_i < Len(artists.keys)
          /\ LET batch == batch_of(artists.keys, batch_i)
                 response == spotapi_artists(remote, batch)
             IN  /\ calls' = Append(calls, ArtistsCall(batch))
                 /\ genres' = FoldArtists(genres, response.artists, artists, 1, Len(response.artists))
          /\ batch_i' = batch_i + batch_size
          /\ UNCHANGED pc
       \/ /\ batch_i >= Len(artists.keys)
          /\ pc' = "get_track_total"
          /\ UNCHANGED <<calls, genres, batch_i>>
    /\ UNCHANGED <<cacheVars, appVars, playlist_entry, playlist_id, remote, offset, artists, track_total>>

\* get_track_total, and the return of get_combined_genres
get_track_total ==
    /\ pc = "get_track_total"
    /\ LET results == playlist_tracks(remote, 0, limit)
       IN  /\ calls' = Append(calls, PlaylistTracksCall(0, limit))
           /\ track_total' = results.total
    /\ pc' = "done"
    /\ UNCHANGED <<cacheVars, appVars, playlist_entry, playlist_id, remote, offset, artists, batch_i, genres>>

\* Playlists of up to MaxPages pages
MaxPages == 3

\* Artists enough for up to MaxBatches batches
MaxBatches == 3

\* The genre tags are shifted along the artists by up to MaxShift
MaxShift == 1

Totals == {n \in {0, 1} \cup {p * limit + d : p \in 1..MaxPages, d \in {-1, 0, 1}} :
              n <= MaxPages * limit}

ArtistNumbers == {n \in {1, 2} \cup {b * batch_size + d : b \in 1..MaxBatches, d \in {-1, 0, 1}} :
                     n <= (MaxBatches - 1) * batch_size + 1}

Remotes ==
    {[total |-> n, nArtists |-> a, feat |-> f, shift |-> sh] :
        n \in Totals, a \in ArtistNumbers, f \in {0, 1}, sh \in 0..MaxShift}

InitAggregate ==
    /\ CacheInit
    /\ AppIdle
    /\ playlist_entry = <<>>
    /\ playlist_id = None
    /\ remote \in Remotes
    /\ pc = "idle"
    /\ offset = 0
    /\ artists = EmptyCounter
    /\ batch_i = 0
    /\ genres = EmptyCounter
    /\ track_total = 0
    /\ calls = <<>>

NextAggregate ==
    \/ get_combined_genres
    \/ get_artist_counts
    \/ get_genre_counts
    \/ get_track_total

SpecAggregate == InitAggregate /\ [][NextAggregate]_vars

(* The aggregator against an API whose paging signal is scripted: each of  *)
(* its first MaxCalls pages carries a URL, None or the empty text as       *)
(* 'next', chosen apart from the number of tracks the playlist holds.  The *)
(* playlists are short ones: what the signal says about pages to come has  *)
(* nothing to do with the tracks there are.                                *)

Signals == {Str("next"), None, Str("")}

ScriptedTotals == {0, 1, 3}

ScriptedRemotes ==
    {[total |-> n, nArtists |-> a, feat |-> 0, shift |-> 0, more |-> m] :
        n \in ScriptedTotals, a \in {1, 2}, m \in [1..MaxCalls -> Signals]}

InitPaginate ==
    /\ CacheInit
    /\ AppIdle
    /\ playlist_entry = <<>>
    /\ playlist_id = None
    /\ remote \in ScriptedRemotes
    /\ pc = "idle"
    /\ offset = 0
    /\ artists = EmptyCounter
    /\ batch_i = 0
    /\ genres = EmptyCounter
    /\ track_total = 0
    /\ calls = <<>>

\* get_artist_counts runs on the thread of the button's callback: once a page
\* has been answered the loop takes its next turn.
SpecPaginate ==
    InitPaginate /\ [][NextAggregate]_vars /\ WF_vars(get_artist_counts)

-----------------------------------------------------------------------------
(* Claims about the genre aggregator, under SpecAggregate *)

GenreNames == {"pop", "rock", "jazz"}

\* The artists track i lists, and the genre tags artist x carries
ArtistsOfTrack(r, i) == {track_artists(r, i)[j].id : j \in 1..Len(track_artists(r, i))}

TagsOf(r, x) == {artist_genres(r, x)[j] : j \in 1..Len(artist_genres(r, x))}

\* The (track, artist) pairs of the playlist
PairsOf(r) == UNION {{<<i, x>> : x \in ArtistsOfTrack(r, i)} : i \in 0..r.total - 1}

DistinctArtists(r) == {p[2] : p \in PairsOf(r)}

\* The calls of one kind, in the order made
IsListingCall(c) == c.api = "playlist_tracks"

IsArtistsCall(c) == c.api = "artists"

ListingCalls == SelectSeq(calls, IsListingCall)

ArtistBatches == SelectSeq(calls, IsArtistsCall)

\* C9: get_combined_genres returns a genre table in which the count of each
\* genre is the number of (track, artist) pairs whose artist carries it, so
\* that artists without tags add nothing, together with the playlist's total;
\* every distinct artist was looked up in exactly one batch of at most 50.
C9_GenreCounts ==
    pc = "done" =>
        LET pairs == PairsOf(remote)
            distinct == {p[2] : p \in pairs}
            batches == ArtistBatches
            places == UNION {{<<n, j>> : j \in 1..Len(batches[n].ids)} : n \in 1..Len(batches)}
        IN  /\ \A g \in GenreNames :
                  CounterGet(genres, g) = Cardinality({p \in pairs : g \in TagsOf(remote, p[2])})
            /\ \A g \in DOMAIN genres.cnt : g \in GenreNames /\ genres.cnt[g] > 0
            /\ track_total = remote.total
            /\ \A n \in 1..Len(batches) : Len(batches[n].ids) \in 1..50
            /\ \A nj \in places : batches[nj[1]].ids[nj[2]] \in distinct
            /\ \A x \in distinct :
                  Cardinality({nj \in places : batches[nj[1]].ids[nj[2]] = x}) = 1

\* C9's case: a playlist of several pages whose artists need more than one
\* batch, one of them without any tag, was aggregated.
C9_Witness ==
    /\ pc = "done"
    /\ remote.total > limit
    /\ Len(ArtistBatches) > 1
    /\ \E x \in DistinctArtists(remote) : TagsOf(remote, x) = {}
    /\ CounterGet(genres, "jazz") > 0
    /\ remote.feat = 1

CeilDiv(a, b) == (a + b - 1) \div b

\* How often artist x is listed on the tracks lo..hi
AppearancesIn(r, x, lo, hi) == Cardinality({i \in lo..hi : x \in ArtistsOfTrack(r, i)})

\* The sum, over the pages p..last of the listing, of the per-page counts of x
RECURSIVE SumOverPages(_, _, _, _)
SumOverPages(r, x, p, lastPage) ==
    IF p > lastPage THEN 0
    ELSE AppearancesIn(r, x, p * limit, Min((p + 1) * limit, r.total) - 1)
            + SumOverPages(r, x, p + 1, lastPage)

\* The artist counts are the sums of the per-page counts
CountsAreSumOverPages ==
    /\ DOMAIN artists.cnt = DistinctArtists(remote)
    /\ \A x \in DOMAIN artists.cnt :
          artists.cnt[x] = SumOverPages(remote, x, 0, CeilDiv(remote.total, limit) - 1)
    /\ \A n \in 1..Len(artists.keys) : artists.keys[n] \in DOMAIN artists.cnt

\* C10 as stated: the artist counts are the sums of the per-page counts, and one
\* aggregate run issues exactly ceil(total_tracks/page_size) track-listing calls,
\* at offsets 0, 100, 200, ..., none requested twice.
C10_ListingCallsAsStated ==
    pc = "done" =>
        /\ CountsAreSumOverPages
        /\ Len(ListingCalls) = CeilDiv(remote.total, limit)
        /\ \A k \in 1..Len(ListingCalls) : ListingCalls[k].offset = (k - 1) * limit

\* C10 as amended: get_artist_counts issues max(1, ceil(total_tracks/page_size))
\* listing calls, the first calls of the run, at offsets 0, 100, 200, ... with
\* limit 100; the run ends with one more listing call, get_track_total's, at
\* offset 0; the artist counts are the sums of the per-page counts.
C10_ListingCalls ==
    pc = "done" =>
        LET pages == IF remote.total = 0 THEN 1 ELSE CeilDiv(remote.total, limit)
        IN  /\ CountsAreSumOverPages
            /\ Len(ListingCalls) = pages + 1
            /\ \A k \in 1..pages :
                  /\ calls[k] = PlaylistTracksCall((k - 1) * 100, 100)
                  /\ ListingCalls[k] = calls[k]
            /\ ListingCalls[pages + 1] = PlaylistTracksCall(0, 100)
            /\ calls[Len(calls)] = ListingCalls[pages + 1]

\* C10's case: a run over a playlist of three full pages has ended.
C10_Witness ==
    /\ pc = "done"
    /\ remote.total = 3 * limit
    /\ Len(ListingCalls) = 4
    /\ ListingCalls[3].offset = 200
    /\ remote.nArtists > batch_size

-----------------------------------------------------------------------------
(* Claims about the pagination loop, under SpecPaginate *)

\* The 'next' the API gives with the k-th page of the listing
SignalOf(k) == next_of(remote, (k - 1) * limit, limit)

EmptySignals == {k \in 1..MaxCalls : ~Truthy(SignalOf(k))}

\* The first page whose signal is empty, 0 when no page followed has one
FirstEmpty ==
    IF EmptySignals = {} THEN 0
    ELSE CHOOSE k \in EmptySignals : \A j \in EmptySignals : k <= j

InLoop == pc = "get_artist_counts"

PastLoop == pc \in {"get_genre_counts", "get_track_total", "done"}

\* C11: the loop of get_artist_counts is driven by the 'next' of the pages alone.
\* While it runs, every page it has asked for but the first followed a page
\* whose signal said more; once it has ended, it had asked for exactly the pages
\* up to the first one whose signal was empty (None or the empty text), in
\* order, and for none after it, whatever number of tracks the playlist holds.
\* If some page has an empty signal the loop ends, right after that page; if
\* none has, it never ends.
C11_LoopDrivenBySignal ==
    /\ [](InLoop =>
            /\ offset = Len(calls) * limit
            /\ \A k \in 1..Len(calls) :
                  /\ Truthy(SignalOf(k))
                  /\ calls[k] = PlaylistTracksCall((k - 1) * limit, limit))
    /\ [](PastLoop =>
            /\ FirstEmpty >= 1
            /\ Len(calls) >= FirstEmpty
            /\ \A k \in 1..FirstEmpty : calls[k] = PlaylistTracksCall((k - 1) * limit, limit)
            /\ \A k \in FirstEmpty + 1..Len(calls) :
                  IsListingCall(calls[k]) => (calls[k].offset = 0 /\ k = Len(calls) /\ pc = "done"))
    /\ [](FirstEmpty = 0 => pc \in {"idle", "get_artist_counts"})
    /\ ((InLoop /\ FirstEmpty # 0) ~> (pc = "get_genre_counts" /\ Len(calls) = FirstEmpty))

\* C11's case: over a playlist of one track the loop went on to a third page,
\* the first whose signal was empty, and ended there.
C11_Witness ==
    /\ pc = "get_genre_counts"
    /\ batch_i = 0
    /\ remote.total = 1
    /\ "more" \in DOMAIN remote
    /\ FirstEmpty = 3
    /\ SignalOf(3) = Str("")
    /\ Len(calls) = 3

-----------------------------------------------------------------------------
(* Claims about the application's canvases, under SpecApp *)

\* run_main was called: the main canvas is shown, or its construction raised
MainStarted(s) == s \in {"main", "main_error"}

\* A token endpoint answer that carries no expires_in
LacksExpiresIn(response) == response.k = "return" /\ "expires_in" \notin DOMAIN response.v.d

\* C12: the main canvas is started only with a token cache file on disk: from
\* App.__init__ only when get_cached_token returned a non-empty record, and from
\* the authorisation canvas only when a code was entered, both credentials are
\* non-empty and save_token_to_cache returned.  When the token endpoint answers
\* without expires_in, save_token_to_cache raises KeyError, the cache file and
\* its modification time are as before (here: there is none) and the main
\* canvas is not started.
C12_MainCanvasNeedsCache ==
    /\ [][(~MainStarted(screen) /\ MainStarted(screen')) =>
            /\ exists(tokenFile')
            /\ \/ /\ screen = "none"
                  /\ last'.op = "get_cached_token"
                  /\ last'.out.k = "return"
                  /\ last'.out.v.t = "dict"
                  /\ DOMAIN last'.out.v.d # {}
               \/ /\ screen = "authorisation"
                  /\ code_entry' # ""
                  /\ BothNonEmpty(credentials)
                  /\ last'.op = "save_token_to_cache"
                  /\ last'.out = Return(None)]_vars
    /\ [][\A c \in CodeInputs \ {""}, response \in Responses :
            (submit_authorisation_code(c, response) /\ LacksExpiresIn(response)
                /\ BothNonEmpty(credentials)) =>
                    /\ last' = Called("save_token_to_cache", response.v, Raise("KeyError"))
                    /\ tokenFile' = tokenFile
                    /\ tokenMtime' = tokenMtime
                    /\ ~exists(tokenFile')
                    /\ screen' = "authorisation"]_vars

\* C12's case: a code submitted on the authorisation canvas brought the main
\* canvas up, the token cache written.
C12_Witness ==
    /\ screen = "main"
    /\ code_entry = "codeA"
    /\ last.op = "save_token_to_cache"
    /\ last.out = Return(None)
    /\ exists(tokenFile)
    /\ BothNonEmpty(credentials)

====
